---- MODULE Spec2Model ----
(***************************************************************************)
(* GeoMosaic: the pipeline orchestrator of src/geomosaic/app.py (one Tk    *)
(* controlling thread, one worker thread per run, a queue between them)    *)
(* and the pure helpers of src/geomosaic/backend.py that derive the        *)
(* preview metadata; and the georeference tool of src/geotiff_tool.py,     *)
(* which extracts the georeference of a raster into a JSON document and    *)
(* injects such a document into a copy of another raster.                  *)
(*                                                                         *)
(* Lengths are integers in millimetres (a pixel width of 10 m is 10000),   *)
(* angles are integers in degrees.                                         *)
(***************************************************************************)
EXTENDS Integers, Sequences, FiniteSets, TLC

VARIABLES
    worker,         \* App._worker: 0 is None, else the slot of the last Thread
    pc,             \* position of each worker thread in _run_pipeline
    args,           \* (minz, maxz) handed to the thread by _start
    info,           \* local `info` of _run_pipeline (RasterPreviewInfo)
    err,            \* the exception `e` caught at app.py:194
    emitted,        \* lines the tiling tool has printed so far in this run
    trace,          \* the steps this run has executed, in order
    log_queue,      \* App._log_queue
    last_preview,   \* App._last_preview
    keep_tmp_var,   \* App.keep_tmp_var
    run_btn,        \* state of App.run_btn
    open_btn,       \* state of App.open_btn
    suggest_lbl,    \* text of App.suggest_lbl
    logbox,         \* the line App._append_log wrote last
    dialog,         \* the messagebox shown last
    msg,            \* local `msg` of _pump_logs: the message taken last
    ctl_pc,         \* controlling thread: "idle" (in mainloop) or "pump"
    after_pending,  \* an after(120, _pump_logs) timer is scheduled
    fs,             \* the files and directories under the output directory
    fn_in,          \* arguments of the pure function under check
    fn_out,         \* its result, <<>> until it has been applied
    disk,           \* geotiff_tool: what each path of the file system holds
    dirs,           \* geotiff_tool: the directories that exist
    inj,            \* the frame of _apply_georef_from_json while it runs
    extract_data,   \* what _extract_georef_data did last (self._extract_data)
    gdal_env        \* what the installed GDAL and the file system permit

vars == <<worker, pc, args, info, err, emitted, trace, log_queue, last_preview,
          keep_tmp_var, run_btn, open_btn, suggest_lbl, logbox, dialog, msg,
          ctl_pc, after_pending, fs, fn_in, fn_out,
          disk, dirs, inj, extract_data, gdal_env>>

toolVars == <<disk, dirs, inj, extract_data, gdal_env>>

\* ------------------------------------------------------------------ bounds

MaxThreads == 2      \* Thread objects that can exist at once in the model
MaxBacklog == 1      \* unread messages a start may find in the queue
MaxProbeZ == 24      \* zoom levels whose resolution thresholds are sampled

Threads == 1..MaxThreads

\* --------------------------------------------------------- pure functions

None == -1           \* Python None of an Optional[int]

BaseResMM == 156543034   \* 156543.03392804097 m in mm, rounded up
ZoomClampMax == 22

MaxResMM == 8 * BaseResMM    \* the widest pixel the model is exact for

Abs(x) == IF x < 0 THEN -x ELSE x

RECURSIVE Pow2(_)
Pow2(k) == IF k <= 0 THEN 1 ELSE 2 * Pow2(k - 1)

CeilDiv(a, b) == (a + b - 1) \div b

Max2(a, b) == IF a >= b THEN a ELSE b
Min2(a, b) == IF a <= b THEN a ELSE b

\* 2^k >= 156543.03392804097 / res, for a whole number res > 0 of
\* millimetres. The base is no whole number of millimetres, so
\* res * 2^k >= base exactly when res * 2^k >= BaseResMM.
Pow2GeRatio(k, res) ==
    IF k >= 0 THEN res >= CeilDiv(BaseResMM, Pow2(k))
              ELSE res >= BaseResMM * Pow2(-k)

\* The least k >= from with 2^k >= base / res. For 1 <= res <= MaxResMM the
\* logarithm lies in (-4, 28], so the search from -3 stops by 28.
RECURSIVE LeastK(_, _)
LeastK(res, from) ==
    IF from >= 28 \/ Pow2GeRatio(from, res) THEN from ELSE LeastK(res, from + 1)

\* The ratio inverted, log2(res / base): the least k >= from with
\* base * 2^k >= res, looked for in 0..4.
RECURSIVE LeastKInverted(_, _)
LeastKInverted(res, from) ==
    IF from >= 4 \/ res < BaseResMM * Pow2(from) THEN from
    ELSE LeastKInverted(res, from + 1)

CeilLog2BaseOver_floor(res) == LeastK(res, -3) - 1

CeilLog2BaseOver_inverted(res) == LeastKInverted(res, 0)

\* math.ceil(math.log2(156543.03392804097 / res))
CeilLog2BaseOver(res) == LeastK(res, -3)

\* max(0, min(22, z))
ClampZoom(z) == Max2(0, Min2(ZoomClampMax, z))

SuggestMaxZoom_signed(gt1) ==
    LET res == gt1 IN
    IF ~(res > 0) THEN None
    ELSE ClampZoom(CeilLog2BaseOver(res))

\* _suggest_max_zoom_from_3857_gt; gt1 is gt[1] in millimetres
SuggestMaxZoom(gt1) ==
    LET res == Abs(gt1) IN
    IF ~(res > 0) THEN None
    ELSE ClampZoom(CeilLog2BaseOver(res))

\* One coefficient of a transform as Python holds it: a finite float of mm
\* millimetres, a NaN, an infinity, or an object float() rejects
Num(n) == [kind |-> "num", mm |-> n]
NaN == [kind |-> "nan", mm |-> 0]
Inf == [kind |-> "inf", mm |-> 0]
Text == [kind |-> "text", mm |-> 0]

\* What a call did: the value it returned, or the exception it raised
Returned(v) == [exc |-> "", value |-> v]
Raised(e) == [exc |-> e, value |-> None]

\* The try block of _suggest_max_zoom_from_3857_gt (backend.py:368-372); gt
\* is the sequence handed in, gt[1] of Python is its second element
SuggestBody(gt) ==
    IF Len(gt) < 2 THEN Raised("IndexError")
    ELSE LET c == gt[2] IN
         CASE c.kind = "text" -> Raised("ValueError")     \* float(gt[1])
           [] c.kind = "nan" -> Returned(None)           \* not (nan > 0)
           [] c.kind = "inf" -> Raised("ValueError")     \* math.log2(0.0)
           [] OTHER -> Returned(SuggestMaxZoom(c.mm))

\* _suggest_max_zoom_from_3857_gt with its `except Exception: return None`
SuggestMaxZoomFromGt(gt) ==
    LET r == SuggestBody(gt) IN
    IF r.exc # "" THEN Returned(None) ELSE r

AxisCorrect_firstOver90(a, b) ==
    IF Abs(a) > 90 /\ Abs(b) <= 90 THEN [lon |-> b, lat |-> a]
    ELSE [lon |-> a, lat |-> b]

\* _compute_preview_info, the loop body at backend.py:332-338: (a, b) is
\* what TransformPoint returned, lon = a and lat = b unless they are swapped
AxisCorrect(a, b) ==
    IF Abs(b) > 90 /\ Abs(a) <= 90 THEN [lon |-> b, lat |-> a]
    ELSE [lon |-> a, lat |-> b]

\* Degrees are held in half-degree units once a sum is halved: a whole
\* degree d is 2 * d, and (min + max) / 2.0 of whole degrees is exact
HalfDeg(d) == 2 * d

\* min(list) and max(list) of Python for a non-empty list
RECURSIVE MinOf(_)
MinOf(seq) == IF Len(seq) = 1 THEN seq[1] ELSE Min2(seq[1], MinOf(Tail(seq)))

RECURSIVE MaxOf(_)
MaxOf(seq) == IF Len(seq) = 1 THEN seq[1] ELSE Max2(seq[1], MaxOf(Tail(seq)))

\* The corrected corners of _compute_preview_info, in the order of
\* corners_3857: lats and lngs as the loop at backend.py:331-341 appends them
CorrectedCorners(raw) ==
    [i \in 1..Len(raw) |-> AxisCorrect(raw[i][1], raw[i][2])]

PreviewBounds_diagonal(raw) ==
    LET cs == CorrectedCorners(raw)
        lats == [i \in 1..Len(cs) |-> HalfDeg(cs[i].lat)]
        lngs == [i \in 1..Len(cs) |-> HalfDeg(cs[i].lon)]
    IN  [bounds_sw_lat |-> MinOf(lats), bounds_ne_lat |-> MaxOf(lats),
         bounds_sw_lng |-> MinOf(lngs), bounds_ne_lng |-> MaxOf(lngs),
         center_lat |-> (lats[1] + lats[2]) \div 2,
         center_lng |-> (lngs[1] + lngs[2]) \div 2]

\* _compute_preview_info, backend.py:329-360: bounds and centre of the four
\* corrected corners (all values in half-degrees)
PreviewBounds(raw) ==
    LET cs == CorrectedCorners(raw)
        lats == [i \in 1..Len(cs) |-> HalfDeg(cs[i].lat)]
        lngs == [i \in 1..Len(cs) |-> HalfDeg(cs[i].lon)]
        min_lat == MinOf(lats)
        max_lat == MaxOf(lats)
        min_lng == MinOf(lngs)
        max_lng == MaxOf(lngs)
    IN  [bounds_sw_lat |-> min_lat, bounds_ne_lat |-> max_lat,
         bounds_sw_lng |-> min_lng, bounds_ne_lng |-> max_lng,
         center_lat |-> (min_lat + max_lat) \div 2,
         center_lng |-> (min_lng + max_lng) \div 2]

\* ------------------------------------------------------ the tile locator

\* range(0, 31) of _find_tiles_root: the zoom levels probed are 0..30
ZoomProbeStop == 31

\* str(z) for every probed z: the directory names that count as zoom levels
ZoomNames == { ToString(z) : z \in 0..(ZoomProbeStop - 1) }

\* A directory tree below out_dir is a function from the relative paths of a
\* universe to "none" (no such entry), "file" or "dir"; paths are sequences
\* of names, <<>> is out_dir itself.
IsDir(t, p) == p = <<>> \/ (p \in DOMAIN t /\ t[p] = "dir")

Exists(t, p) == p \in DOMAIN t /\ t[p] # "none"

\* `for z in range(0, 31): if (d / str(z)).is_dir()` finds one
HasZoomDir(t, d) == \E n \in ZoomNames : IsDir(t, Append(d, n))

\* out_dir.iterdir(): the entries directly in out_dir, in the order the
\* file system lists them
IterDir(t, order) == SelectSeq(order, LAMBDA n : Exists(t, <<n>>))

\* The first element of seq that satisfies Test, as a one-element sequence,
\* or <<>> when there is none
FirstWhere(seq, Test(_)) ==
    LET hits == SelectSeq(seq, Test) IN
    IF hits = <<>> THEN <<>> ELSE <<hits[1]>>

FindTilesRoot_anyChild(t, order, listable) ==
    IF HasZoomDir(t, <<>>) THEN <<>>
    ELSE IF ~listable THEN <<>>
    ELSE FirstWhere(IterDir(t, order), LAMBDA n : IsDir(t, <<n>>))

FindTilesRoot_childFirst(t, order, listable) ==
    LET found == FirstWhere(IterDir(t, order),
                            LAMBDA n : IsDir(t, <<n>>) /\ HasZoomDir(t, <<n>>))
    IN IF listable /\ found # <<>> THEN found ELSE <<>>

FindTilesRoot_deep(t, order, listable) ==
    IF HasZoomDir(t, <<>>) THEN <<>>
    ELSE IF ~listable THEN <<>>
    ELSE FirstWhere(IterDir(t, order),
                    LAMBDA n : IsDir(t, <<n>>)
                               /\ (HasZoomDir(t, <<n>>) \/ HasZoomDir(t, <<n, "b">>)))

\* _find_tiles_root: the path of the root relative to out_dir. listable is
\* FALSE when out_dir.iterdir() raises, which the code swallows.
FindTilesRoot(t, order, listable) ==
    IF HasZoomDir(t, <<>>) THEN <<>>
    ELSE IF ~listable THEN <<>>
    ELSE FirstWhere(IterDir(t, order),
                    LAMBDA n : IsDir(t, <<n>>) /\ HasZoomDir(t, <<n>>))

\* guess_xyz_tiles_url_template: the template as its segments between "/",
\* with the root it was built for
GuessTemplate(t, order, listable) ==
    LET root == FindTilesRoot(t, order, listable)
        prefix == IF root = <<>> THEN <<".">> ELSE <<".">> \o root
    IN [root |-> root, template |-> prefix \o <<"{z}", "{x}", "{y}.png">>]

\* Names for which str.isdigit() holds, and names whose suffix, lowered, is
\* ".png", among the names the model uses
DigitNames == { "5", "7", "9" }
PngNames == { "1.png", "2.PNG", "a.png", "b.png" }

\* d.iterdir() for the directory at path d
IterDirAt(t, d, order) == SelectSeq(order, LAMBDA n : Exists(t, Append(d, n)))

\* What the search has come to: a file, nothing, or an exception
Found(p) == [kind |-> "found", path |-> p]
NotFound == [kind |-> "none", path |-> <<>>]
SearchRaised == [kind |-> "raised", path |-> <<>>]

DigitDirs_any(t, d, order) ==
    SelectSeq(IterDirAt(t, d, order), LAMBDA n : IsDir(t, Append(d, n)))

\* The directories of d the loops of _find_any_png_under descend into
DigitDirs(t, d, order) ==
    SelectSeq(IterDirAt(t, d, order),
              LAMBDA n : IsDir(t, Append(d, n)) /\ n \in DigitNames)

\* The innermost loop (backend.py:534-536) over the x directories xs of
\* z_dir, in order; fails is the directory whose iterdir() raises, if any
RECURSIVE SearchX(_, _, _, _, _)
SearchX(t, order, fails, z, xs) ==
    IF xs = <<>> THEN NotFound
    ELSE LET x_dir == <<z, Head(xs)>>
             pngs == SelectSeq(IterDirAt(t, x_dir, order),
                               LAMBDA f : t[Append(x_dir, f)] = "file"
                                          /\ f \in PngNames)
         IN IF fails = x_dir THEN SearchRaised
            ELSE IF pngs # <<>> THEN Found(Append(x_dir, pngs[1]))
            ELSE SearchX(t, order, fails, z, Tail(xs))

\* The outer loop (backend.py:528-533) over the z directories zs of root
RECURSIVE SearchZ(_, _, _, _)
SearchZ(t, order, fails, zs) ==
    IF zs = <<>> THEN NotFound
    ELSE LET z == Head(zs)
             r == SearchX(t, order, fails, z, DigitDirs(t, <<z>>, order))
         IN IF fails = <<z>> THEN SearchRaised
            ELSE IF r # NotFound THEN r
            ELSE SearchZ(t, order, fails, Tail(zs))

\* The try block of _find_any_png_under (backend.py:527-536) on the tree t
\* below root
FindAnyPngBody(t, order, fails) ==
    IF fails = <<>> THEN SearchRaised
    ELSE SearchZ(t, order, fails, DigitDirs(t, <<>>, order))

\* _find_any_png_under: `except Exception: return None`, else the file
\* found or None (backend.py:524-539)
FindAnyPngUnder(t, order, fails) ==
    LET r == FindAnyPngBody(t, order, fails) IN
    IF r.kind = "raised" THEN NotFound ELSE r

\* ------------------------------------------------------------- the queue

\* A queued string is its control prefix (what startswith can match: one of
\* "__DONE__", "__ERR__", "__SUGGEST__", or "" for none) and the rest.
Msg(tag, body) == [tag |-> tag, body |-> body]

LogMsg(s) == Msg("", s)

\* What the tiling tool may print on stdout/stderr in one run, line by
\* line: nothing, a progress line, or a line that begins like a control
\* message.
ToolOutputs ==
    { <<>>, <<LogMsg("0...10...20")>>, <<Msg("__DONE__", "tool")>>,
      <<Msg("__ERR__", "tool")>>, <<Msg("__SUGGEST__", "tool")>> }

IsPrefix(p, q) == Len(p) <= Len(q) /\ SubSeq(q, 1, Len(p)) = p

NoMsg == Msg("", "none")

\* Queue.put, for one or more strings in program order
Put(ms) == log_queue' = log_queue \o ms

\* ------------------------------------------------------------ the workers

NoInfo == [warped_path |-> "", suggested_max_zoom |-> None]

IsAlive(w) == pc[w] # "idle"

AliveSet == { w \in Threads : IsAlive(w) }

WorkerBusy_never == FALSE

\* app.py:110  self._worker and self._worker.is_alive()
WorkerBusy == worker # 0 /\ IsAlive(worker)

\* The slot a new Thread object takes
FreeSlot == CHOOSE w \in Threads : ~IsAlive(w) /\ \A v \in Threads : v < w => IsAlive(v)

\* Pixel widths (mm) the warped raster of a run may have; 0 is degenerate
RunResolutions == {0, 10000}

\* Zoom ranges the spin boxes may hold at a start
ZoomRanges == { <<0, 1>>, <<1, 0>> }

Goto(w, to) == pc' = [pc EXCEPT ![w] = to]

Did(w, step) == trace' = [trace EXCEPT ![w] = Append(@, step)]

\* An exception leaves the try block for the handler at app.py:194
Raise(w, e) ==
    /\ Goto(w, "err_log")
    /\ err' = [err EXCEPT ![w] = e]

Has(seq, x) == \E i \in 1..Len(seq) : seq[i] = x

Count(seq, x) == Cardinality({ i \in 1..Len(seq) : seq[i] = x })

ctlVars == <<worker, run_btn, open_btn, suggest_lbl, logbox, dialog, msg,
             ctl_pc, after_pending, keep_tmp_var>>

pureVars == <<fn_in, fn_out, toolVars>>

\* warp_to_web_mercator up to validate_geotiff (backend.py:231-240)
WarpBegin(w) ==
    /\ pc[w] = "warp_begin"
    /\ \E gdal_ok \in BOOLEAN :
         IF gdal_ok
         THEN /\ fs' = fs \cup {"out_dir", "cache_dir"}
              /\ Put(<<LogMsg("validating")>>)
              /\ Goto(w, "validate")
              /\ UNCHANGED err
         ELSE /\ Raise(w, "gdal unavailable")
              /\ UNCHANGED <<fs, log_queue>>
    /\ UNCHANGED <<args, info, emitted, trace, last_preview, ctlVars, pureVars>>

\* validate_geotiff (backend.py:210-223, 240-245)
Validate(w) ==
    /\ pc[w] = "validate"
    /\ \E valid \in BOOLEAN :
         IF valid
         THEN /\ Put(<<LogMsg("reprojecting")>>)
              /\ Goto(w, "warp")
              /\ Did(w, "validate")
              /\ UNCHANGED err
         ELSE /\ Raise(w, "not a GeoTIFF")
              /\ UNCHANGED <<log_queue, trace>>
    /\ UNCHANGED <<args, info, emitted, fs, last_preview, ctlVars, pureVars>>

Warp_defersDerive(w) ==
    /\ pc[w] = "warp"
    /\ \E warped \in BOOLEAN :
         IF warped
         THEN /\ fs' = fs \cup {"warped"}
              /\ Goto(w, "tiles_begin")
              /\ Did(w, "reproject")
              /\ UNCHANGED err
         ELSE /\ Raise(w, "warp failed")
              /\ fs' = fs
              /\ UNCHANGED trace
    /\ UNCHANGED <<args, info, emitted, log_queue, last_preview, ctlVars, pureVars>>

\* gdal.Warp (backend.py:276-280); a failed warp may leave a partial file
Warp(w) ==
    /\ pc[w] = "warp"
    /\ \E warped \in BOOLEAN :
         IF warped
         THEN /\ fs' = fs \cup {"warped"}
              /\ Goto(w, "derive")
              /\ Did(w, "reproject")
              /\ UNCHANGED err
         ELSE /\ Raise(w, "warp failed")
              /\ \E partial \in BOOLEAN :
                   fs' = IF partial THEN fs \cup {"warped"} ELSE fs
              /\ UNCHANGED trace
    /\ UNCHANGED <<args, info, emitted, log_queue, last_preview, ctlVars, pureVars>>

\* _compute_preview_info and the return of warp_to_web_mercator
\* (backend.py:282-285, 288-360)
Derive(w) ==
    /\ pc[w] = "derive"
    /\ \E readable \in BOOLEAN :
         IF readable
         THEN \E gt1 \in RunResolutions :
                LET z == SuggestMaxZoom(gt1) IN
                /\ info' = [info EXCEPT ![w] =
                              [warped_path |-> "warped", suggested_max_zoom |-> z]]
                /\ Put(IF z # None THEN <<LogMsg("suggested zoom")>> ELSE <<>>)
                /\ Goto(w, "set_last")
                /\ Did(w, "derive")
                /\ UNCHANGED err
         ELSE /\ Raise(w, "no GeoTransform")
              /\ UNCHANGED <<info, log_queue, trace>>
    /\ UNCHANGED <<args, emitted, fs, last_preview, ctlVars, pureVars>>

\* app.py:148  self._last_preview = info
SetLastPreview(w) ==
    /\ pc[w] = "set_last"
    /\ last_preview' = info[w]
    /\ Goto(w, "suggest")
    /\ UNCHANGED <<args, info, err, emitted, trace, log_queue, fs, ctlVars, pureVars>>

\* app.py:151-152
PutSuggest(w) ==
    /\ pc[w] = "suggest"
    /\ Put(IF info[w].suggested_max_zoom # None
           THEN <<Msg("__SUGGEST__", ToString(info[w].suggested_max_zoom))>>
           ELSE <<>>)
    /\ Goto(w, "tiles_begin")
    /\ UNCHANGED <<args, info, err, emitted, trace, fs, last_preview, ctlVars, pureVars>>

\* generate_xyz_tiles up to the call of gdal2tiles (backend.py:384-409)
TilesBegin(w) ==
    /\ pc[w] = "tiles_begin"
    /\ LET min_zoom == args[w][1]
           max_zoom == args[w][2]
       IN IF min_zoom < 0 \/ max_zoom < 0 \/ max_zoom < min_zoom
          THEN /\ Raise(w, "bad zoom range")
               /\ UNCHANGED log_queue
          ELSE /\ Put(<<LogMsg("tiling"), LogMsg("command")>>)
               /\ Goto(w, "tiles_run")
               /\ UNCHANGED err
    /\ UNCHANGED <<args, info, emitted, trace, fs, last_preview, ctlVars, pureVars>>

\* gdal2tiles at work: it writes tiles and prints a line, which _LogStream
\* forwards to log (backend.py:422-430, 469-470)
TilesWork(w) ==
    /\ pc[w] = "tiles_run"
    /\ \E out \in ToolOutputs :
         /\ IsPrefix(emitted[w], out)
         /\ Len(emitted[w]) < Len(out)
         /\ Put(<<out[Len(emitted[w]) + 1]>>)
         /\ emitted' = [emitted EXCEPT ![w] = Append(@, out[Len(@) + 1])]
    /\ fs' = fs \cup {"tiles"}
    /\ UNCHANGED <<pc, args, info, err, trace, last_preview, ctlVars, pureVars>>

\* gdal2tiles returns or raises (backend.py:470-480)
TilesEnd(w) ==
    /\ pc[w] = "tiles_run"
    /\ \E rc \in {0, 1} :
         IF rc = 0
         THEN /\ Goto(w, "locate")
              /\ Did(w, "tile")
              /\ UNCHANGED err
         ELSE /\ Raise(w, "gdal2tiles failed")
              /\ UNCHANGED trace
    /\ UNCHANGED <<args, info, emitted, log_queue, fs, last_preview, ctlVars, pureVars>>

\* app.py:156-164: the tile layout locator and its log lines
Locate(w) ==
    /\ pc[w] = "locate"
    /\ Put(<<LogMsg("writing index.html"), LogMsg("template")>>
           \o (IF "tiles" \in fs THEN <<LogMsg("sample tile")>> ELSE <<>>))
    /\ Goto(w, "index")
    /\ Did(w, "locate")
    /\ UNCHANGED <<args, info, err, emitted, fs, last_preview, ctlVars, pureVars>>

\* app.py:165-177: the preview page is written
WriteIndex(w) ==
    /\ pc[w] = "index"
    /\ \E written \in BOOLEAN :
         IF written
         THEN /\ fs' = fs \cup {"index.html"}
              /\ Goto(w, "cleanup")
              /\ Did(w, "page")
              /\ UNCHANGED err
         ELSE /\ Raise(w, "cannot write index.html")
              /\ UNCHANGED <<fs, trace>>
    /\ UNCHANGED <<args, info, emitted, log_queue, last_preview, ctlVars, pureVars>>

\* app.py:180  if not bool(self.keep_tmp_var.get())
Cleanup(w) ==
    /\ pc[w] = "cleanup"
    /\ IF keep_tmp_var
       THEN Goto(w, "done_log") /\ Did(w, "keep")
       ELSE Goto(w, "unlink") /\ Did(w, "cleanup")
    /\ UNCHANGED <<args, info, err, emitted, log_queue, fs, last_preview, ctlVars, pureVars>>

Unlink_propagates(w) ==
    /\ pc[w] = "unlink"
    /\ \E deleted \in BOOLEAN :
         IF deleted
         THEN fs' = fs \ {"warped"} /\ Goto(w, "rmdir") /\ Did(w, "unlink")
              /\ UNCHANGED err
         ELSE fs' = fs /\ Raise(w, "unlink failed") /\ Did(w, "unlink failed")
    /\ UNCHANGED <<args, info, emitted, log_queue, last_preview, ctlVars, pureVars>>

\* app.py:181-184  warped_path.unlink(missing_ok=True), any failure swallowed
Unlink(w) ==
    /\ pc[w] = "unlink"
    /\ \E deleted \in BOOLEAN :
         IF deleted
         THEN fs' = fs \ {"warped"} /\ Did(w, "unlink")
         ELSE fs' = fs /\ Did(w, "unlink failed")
    /\ Goto(w, "rmdir")
    /\ UNCHANGED <<args, info, err, emitted, log_queue, last_preview, ctlVars, pureVars>>

Rmdir_withContents(w) ==
    /\ pc[w] = "rmdir"
    /\ \E removable \in BOOLEAN :
         IF removable /\ "cache_dir" \in fs
         THEN fs' = fs \ {"cache_dir", "warped", "cache_other"} /\ Did(w, "rmdir")
         ELSE fs' = fs /\ Did(w, "rmdir failed")
    /\ Goto(w, "done_log")
    /\ UNCHANGED <<args, info, err, emitted, log_queue, last_preview, ctlVars, pureVars>>

\* app.py:185-190  cache_dir.rmdir(), which fails on a directory that is
\* not empty, any failure swallowed
Rmdir(w) ==
    /\ pc[w] = "rmdir"
    /\ \E removable \in BOOLEAN :
         IF removable /\ "cache_dir" \in fs /\ fs \cap {"warped", "cache_other"} = {}
         THEN fs' = fs \ {"cache_dir"} /\ Did(w, "rmdir")
         ELSE fs' = fs /\ Did(w, "rmdir failed")
    /\ Goto(w, "done_log")
    /\ UNCHANGED <<args, info, err, emitted, log_queue, last_preview, ctlVars, pureVars>>

\* app.py:192
DoneLog(w) ==
    /\ pc[w] = "done_log"
    /\ Put(<<LogMsg("finished")>>)
    /\ Goto(w, "done_put")
    /\ UNCHANGED <<args, info, err, emitted, trace, fs, last_preview, ctlVars, pureVars>>

\* app.py:193
DonePut(w) ==
    /\ pc[w] = "done_put"
    /\ Put(<<Msg("__DONE__", "")>>)
    /\ Goto(w, "exit")
    /\ Did(w, "DONE")
    /\ UNCHANGED <<args, info, err, emitted, fs, last_preview, ctlVars, pureVars>>

ErrLog_cleansUp(w) ==
    /\ pc[w] = "err_log"
    /\ Put(<<LogMsg(err[w])>>)
    /\ Goto(w, "err_put")
    /\ fs' = fs \ {"warped"}
    /\ UNCHANGED <<args, info, err, emitted, trace, last_preview, ctlVars, pureVars>>

\* app.py:195
ErrLog(w) ==
    /\ pc[w] = "err_log"
    /\ Put(<<LogMsg(err[w])>>)
    /\ Goto(w, "err_put")
    /\ UNCHANGED <<args, info, err, emitted, trace, fs, last_preview, ctlVars, pureVars>>

ErrPut_thenDone(w) ==
    /\ pc[w] = "err_put"
    /\ Put(<<Msg("__ERR__", err[w])>>)
    /\ Goto(w, "done_put")
    /\ Did(w, "ERR")
    /\ UNCHANGED <<args, info, err, emitted, fs, last_preview, ctlVars, pureVars>>

\* app.py:196
ErrPut(w) ==
    /\ pc[w] = "err_put"
    /\ Put(<<Msg("__ERR__", err[w])>>)
    /\ Goto(w, "exit")
    /\ Did(w, "ERR")
    /\ UNCHANGED <<args, info, err, emitted, fs, last_preview, ctlVars, pureVars>>

\* _run_pipeline returns: the thread ends and its locals are gone
Exit(w) ==
    /\ pc[w] = "exit"
    /\ Goto(w, "idle")
    /\ args' = [args EXCEPT ![w] = <<0, 0>>]
    /\ info' = [info EXCEPT ![w] = NoInfo]
    /\ err' = [err EXCEPT ![w] = ""]
    /\ emitted' = [emitted EXCEPT ![w] = <<>>]
    /\ trace' = [trace EXCEPT ![w] = <<>>]
    /\ UNCHANGED <<log_queue, fs, last_preview, ctlVars, pureVars>>

WorkerStep(w) ==
    \/ WarpBegin(w) \/ Validate(w) \/ Warp(w) \/ Derive(w)
    \/ SetLastPreview(w) \/ PutSuggest(w)
    \/ TilesBegin(w) \/ TilesWork(w) \/ TilesEnd(w)
    \/ Locate(w) \/ WriteIndex(w)
    \/ Cleanup(w) \/ Unlink(w) \/ Rmdir(w)
    \/ DoneLog(w) \/ DonePut(w) \/ ErrLog(w) \/ ErrPut(w)
    \/ Exit(w)

\* ------------------------------------------------- the controlling thread

workerVars == <<pc, args, info, err, emitted, trace>>

\* App._start, the command of run_btn: Tk delivers the click only while the
\* button is enabled
Start ==
    /\ ctl_pc = "idle"
    /\ run_btn = "normal"
    /\ IF WorkerBusy
       THEN /\ dialog' = "busy"
            /\ UNCHANGED <<worker, pc, args, log_queue, fs, run_btn, open_btn,
                           suggest_lbl>>
       ELSE \E src_exists \in BOOLEAN, mkdir_ok \in BOOLEAN, zooms \in ZoomRanges :
              IF ~src_exists
              THEN /\ dialog' = "bad input"
                   /\ UNCHANGED <<worker, pc, args, log_queue, fs, run_btn,
                                  open_btn, suggest_lbl>>
              ELSE IF "out_dir" \notin fs /\ ~mkdir_ok
              THEN /\ dialog' = "mkdir failed"
                   /\ UNCHANGED <<worker, pc, args, log_queue, fs, run_btn,
                                  open_btn, suggest_lbl>>
              ELSE /\ Len(log_queue) <= MaxBacklog
                   /\ \E w \in Threads : ~IsAlive(w)
                   /\ fs' = fs \cup {"out_dir"}
                   /\ open_btn' = "disabled"
                   /\ run_btn' = "disabled"
                   /\ suggest_lbl' = "-"
                   /\ Put(<<LogMsg("===="), LogMsg("input"), LogMsg("output"),
                            LogMsg("zoom")>>)
                   /\ worker' = FreeSlot
                   /\ pc' = [pc EXCEPT ![FreeSlot] = "warp_begin"]
                   /\ args' = [args EXCEPT ![FreeSlot] = zooms]
                   /\ UNCHANGED dialog
    /\ UNCHANGED <<info, err, emitted, trace, last_preview, keep_tmp_var, logbox,
                   msg, ctl_pc, after_pending, pureVars>>

\* The user ticks or unticks the keep-intermediate check box
ToggleKeep ==
    /\ ctl_pc = "idle"
    /\ keep_tmp_var' = ~keep_tmp_var
    /\ UNCHANGED <<worker, workerVars, log_queue, last_preview, run_btn, open_btn,
                   suggest_lbl, logbox, dialog, msg, ctl_pc, after_pending, fs,
                   pureVars>>

\* The after(120, ...) timer fires and _pump_logs is entered
PumpFire ==
    /\ ctl_pc = "idle"
    /\ after_pending
    /\ ctl_pc' = "pump"
    /\ after_pending' = FALSE
    /\ UNCHANGED <<worker, workerVars, log_queue, last_preview, keep_tmp_var,
                   run_btn, open_btn, suggest_lbl, logbox, dialog, msg, fs,
                   pureVars>>

TakeFrom_newest(q) == [m |-> q[Len(q)], rest |-> SubSeq(q, 1, Len(q) - 1)]

\* Queue.get_nowait on a queue that is not empty
TakeFrom(q) == [m |-> Head(q), rest |-> Tail(q)]

\* One turn of the loop of _pump_logs (app.py:200-220)
PumpGet ==
    /\ ctl_pc = "pump"
    /\ log_queue # <<>>
    /\ LET got == TakeFrom(log_queue) IN
       /\ msg' = got.m
       /\ log_queue' = got.rest
       /\ IF got.m.tag = "__DONE__"
          THEN /\ run_btn' = "normal"
               /\ open_btn' = "normal"
               /\ dialog' = "done"
               /\ UNCHANGED <<suggest_lbl, logbox>>
          ELSE IF got.m.tag = "__ERR__"
          THEN /\ run_btn' = "normal"
               /\ open_btn' = "normal"
               /\ dialog' = "failed"
               /\ UNCHANGED <<suggest_lbl, logbox>>
          ELSE IF got.m.tag = "__SUGGEST__"
          THEN /\ suggest_lbl' = got.m.body
               /\ UNCHANGED <<run_btn, open_btn, dialog, logbox>>
          ELSE /\ logbox' = got.m.body
               /\ UNCHANGED <<run_btn, open_btn, dialog, suggest_lbl>>
    /\ UNCHANGED <<worker, workerVars, last_preview, keep_tmp_var, ctl_pc,
                   after_pending, fs, pureVars>>

\* get_nowait raises queue.Empty: the loop ends and the next poll is
\* scheduled (app.py:221-224)
PumpEmpty ==
    /\ ctl_pc = "pump"
    /\ log_queue = <<>>
    /\ ctl_pc' = "idle"
    /\ after_pending' = TRUE
    /\ UNCHANGED <<worker, workerVars, log_queue, last_preview, keep_tmp_var,
                   run_btn, open_btn, suggest_lbl, logbox, dialog, msg, fs,
                   pureVars>>

\* ----------------------------------------------------- the georeference tool

\* Python None where a string or a list is expected, and a missing dict key
Null == "null"

\* The format tag of the interchange document
GeorefFormat == "geomosaic_georef_v1"

\* The paths the tool is pointed at; "new/out.tif" lies in directory "new",
\* the others in the working directory, whose os.path.dirname is ""
Paths == { "a.tif", "b.tif", "doc.json", "out.tif", "new/out.tif" }

DirName(p) == IF p = "new/out.tif" THEN "new" ELSE ""

\* What a path holds. type is "none" (no file), "tif" (a raster GDAL can
\* open) or "json" (an interchange document). A raster carries its pixels
\* (and with them its size) and the georeference GDAL reports for it; a
\* document carries the keys of the dict dumped into it, pixels standing
\* for raster_size. gt is Null for a raster without transform and for a
\* document whose geotransform is null; a string GDAL reports as None is
\* Null as well.
File(type, format, pixels, gt, proj, gcp_proj, gcps, meta) ==
    [type |-> type, format |-> format, pixels |-> pixels, gt |-> gt,
     proj |-> proj, gcp_proj |-> gcp_proj, gcps |-> gcps, meta |-> meta]

NoFile == File("none", "", "", Null, "", "", <<>>, "")

\* os.path.isfile
IsFile(p) == disk[p].type # "none"

\* gdal.GCP as GDAL declares it: GCP(x, y, z, pixel, line, info, id). pos
\* stands for the five coordinates.
GCP(pos, gcp_info, gcp_id) == [pos |-> pos, Id |-> gcp_id, Info |-> gcp_info]

\* The dict the extractor writes for one GCP (geotiff_tool.py:790-799)
GcpToDict(gcp) == [pos |-> gcp.pos, id |-> gcp.Id, info |-> gcp.Info]

\* The GCP the injector builds from one dict (geotiff_tool.py:854-862): the
\* sixth argument is str(g["id"]), the seventh str(g["info"])
GcpFromDict(g) == GCP(g.pos, g.id, g.info)

Map(f(_), seq) == [i \in 1..Len(seq) |-> f(seq[i])]

\* ds.GetGeoTransform of a raster without transform: None where the binding
\* accepts can_return_null, else (after the TypeError at 776) the default
\* transform GDAL reports
ReadGeoTransform(gt, nullable) ==
    IF gt = Null /\ ~nullable THEN "identity" ELSE gt

\* `x or ""`
OrEmpty(x) == IF x = Null THEN "" ELSE x

\* _extract_georef_data (geotiff_tool.py:762-806) applied to what a path
\* holds: the dict it returns, or the exception it raises
ExtractGeorefData(f, nullable) ==
    IF f.type = "none" THEN [exc |-> "FileNotFoundError", data |-> NoFile]
    ELSE IF f.type # "tif" THEN [exc |-> "RuntimeError", data |-> NoFile]
    ELSE [exc |-> "",
          data |-> File("dict", GeorefFormat, f.pixels,
                        ReadGeoTransform(f.gt, nullable),
                        OrEmpty(f.proj), OrEmpty(f.gcp_proj),
                        Map(GcpToDict, f.gcps), f.meta)]

\* _write_georef_json then json.load: what the document holds is the dict
ToJson(data) == [data EXCEPT !.type = "json"]
FromJson(f) == [f EXCEPT !.type = "dict"]

\* The dataset handle `ds` of the injector: the path it was opened on, the
\* mode, and the georeference as the handle holds it, written through to
\* the file by FlushCache and by closing
NoDs == [path |-> "", mode |-> "", content |-> NoFile]

\* No call of _apply_georef_from_json is in progress; the three path fields
\* are what the entry widgets of the embed tab hold
IdleFrame(g, e, o) ==
    [pc |-> "idle", georef_file |-> g, edited_file |-> e, output_file |-> o,
     data |-> NoFile, ds |-> NoDs, events |-> <<>>, exc |-> ""]

\* Nothing has been extracted yet
NoExtract == [exc |-> "", data |-> NoFile, input_file |-> ""]

\* The tool as it is while the pipeline application is the program under
\* check: nothing on disk, no call in progress
ToolIdle ==
    /\ disk = [p \in Paths |-> NoFile]
    /\ dirs = {""}
    /\ inj = IdleFrame("", "", "")
    /\ extract_data = NoExtract
    /\ gdal_env = [update_ok |-> TRUE, nullable |-> TRUE]

\* ---------------------------------------------------------- specifications

\* What the output directory may hold before the first run
FsInit == { {}, {"out_dir", "cache_dir", "cache_other"} }

\* App.__init__ (app.py:23-35): the first _pump_logs found the queue empty
\* and scheduled the next one, then the environment hint was logged
InitApp ==
    /\ worker = 0
    /\ pc = [w \in Threads |-> "idle"]
    /\ args = [w \in Threads |-> <<0, 0>>]
    /\ info = [w \in Threads |-> NoInfo]
    /\ err = [w \in Threads |-> ""]
    /\ emitted = [w \in Threads |-> <<>>]
    /\ trace = [w \in Threads |-> <<>>]
    /\ log_queue = <<LogMsg("environment")>>
    /\ last_preview = NoInfo
    /\ keep_tmp_var = FALSE
    /\ run_btn = "normal"
    /\ open_btn = "disabled"
    /\ suggest_lbl = "-"
    /\ logbox = ""
    /\ dialog = "none"
    /\ msg = NoMsg
    /\ ctl_pc = "idle"
    /\ after_pending = TRUE
    /\ fs \in FsInit

Init == InitApp /\ ToolIdle /\ fn_in = <<>> /\ fn_out = <<>>

Next ==
    \/ Start
    \/ ToggleKeep
    \/ PumpFire
    \/ PumpGet
    \/ PumpEmpty
    \/ \E w \in Threads : WorkerStep(w)

Spec == Init /\ [][Next]_vars

\* The collaborators terminate and Tk keeps running: every worker thread
\* that can take a step takes one (the interpreter schedules it and gdal
\* returns), the after(120, ...) timer fires (app.py:224) and a _pump_logs
\* that was entered runs to its end (app.py:198-223). Nothing obliges the
\* user to click.
Fairness ==
    /\ \A w \in Threads : WF_vars(WorkerStep(w))
    /\ WF_vars(PumpFire)
    /\ WF_vars(PumpGet)
    /\ WF_vars(PumpEmpty)

SpecLive == Spec /\ Fairness

appVars == <<worker, workerVars, log_queue, last_preview, keep_tmp_var, run_btn,
             open_btn, suggest_lbl, logbox, dialog, msg, ctl_pc, after_pending, fs>>

\* Pixel widths (mm) around every zoom threshold base / 2^z, and beyond
ResSamples ==
    UNION { { CeilDiv(BaseResMM, Pow2(z)) - 1, CeilDiv(BaseResMM, Pow2(z)),
              CeilDiv(BaseResMM, Pow2(z)) + 1 } : z \in 0..MaxProbeZ }
    \cup { 1, 10000, 2 * BaseResMM, 4 * BaseResMM + 1, MaxResMM, 0, -1, -10000 }

InitZoom == InitApp /\ ToolIdle /\ fn_in \in ResSamples \X ResSamples /\ fn_out = <<>>

\* _suggest_max_zoom_from_3857_gt applied to two transforms
ApplyZoom ==
    /\ fn_out = <<>>
    /\ fn_out' = <<SuggestMaxZoom(fn_in[1]), SuggestMaxZoom(fn_in[2])>>
    /\ UNCHANGED <<appVars, toolVars, fn_in>>

SpecZoom == InitZoom /\ [][ApplyZoom]_vars

\* The transform of a north-up raster with pixel width c, and transforms
\* that are cut short or carry a coefficient that is no finite number
GtOf(c) == <<Num(399960000), c, Num(0), Num(2000000000), Num(0), Num(-10000)>>

GtSamples ==
    { GtOf(Num(r)) : r \in ResSamples }
    \cup { GtOf(Num(-r)) : r \in ResSamples }
    \cup { GtOf(NaN), GtOf(Inf), GtOf(Text), <<>>, <<Num(399960000)>> }

InitGt == InitApp /\ ToolIdle /\ fn_in \in { <<g>> : g \in GtSamples } /\ fn_out = <<>>

\* _suggest_max_zoom_from_3857_gt applied to one transform
ApplyGt ==
    /\ fn_out = <<>>
    /\ fn_out' = <<SuggestMaxZoomFromGt(fn_in[1])>>
    /\ UNCHANGED <<appVars, toolVars, fn_in>>

SpecGt == InitGt /\ [][ApplyGt]_vars

\* The entries an output directory may hold, and what each may be
TreePaths ==
    { <<"5">>, <<"30">>, <<"31">>, <<"a">>, <<"tiles">>,
      <<"5", "tiles">>, <<"31", "5">>, <<"a", "30">>, <<"a", "b">>,
      <<"tiles", "0">>, <<"tiles", "31">>,
      <<"a", "b", "0">> }

KindsAt(p) ==
    IF p \in { <<"5">>, <<"a">>, <<"a", "30">>, <<"tiles", "0">> }
    THEN {"none", "file", "dir"}
    ELSE {"none", "dir"}

Parent(p) == SubSeq(p, 1, Len(p) - 1)

\* Every tree over the universe: an entry exists only inside a directory
Trees ==
    { t \in [TreePaths -> {"none", "file", "dir"}] :
        \A p \in TreePaths :
            /\ t[p] \in KindsAt(p)
            /\ (t[p] # "none" => IsDir(t, Parent(p))) }

\* Two orders in which a file system may list the entries of out_dir
ListOrders == { <<"30", "31", "5", "a", "tiles">>, <<"tiles", "a", "5", "31", "30">> }

InitLocator ==
    /\ InitApp
    /\ ToolIdle
    /\ fn_in \in [tree : Trees, order : ListOrders, listable : BOOLEAN]
    /\ fn_out = <<>>

\* guess_xyz_tiles_url_template applied to one output directory
ApplyLocator ==
    /\ fn_out = <<>>
    /\ fn_out' = <<GuessTemplate(fn_in.tree, fn_in.order, fn_in.listable)>>
    /\ UNCHANGED <<appVars, toolVars, fn_in>>

SpecLocator == InitLocator /\ [][ApplyLocator]_vars

\* The entries a tile root may hold, down to four levels
SamplePaths ==
    { <<"5">>, <<"x">>, <<"a.png">>,
      <<"5", "7">>, <<"5", "y">>, <<"5", "b.png">>, <<"x", "7">>,
      <<"5", "7", "1.png">>, <<"5", "7", "2.PNG">>, <<"5", "7", "t.jpg">>,
      <<"5", "7", "9">>, <<"5", "y", "1.png">>, <<"x", "7", "1.png">>,
      <<"5", "7", "9", "1.png">> }

\* What an entry is by its name, and the entries that may also be the
\* other thing: a file with a digit name, a directory named like a tile
UsualKind(p) ==
    IF p[Len(p)] \in DigitNames \cup {"x", "y"} THEN "dir" ELSE "file"

OddPaths == { <<"5">>, <<"5", "7">>, <<"5", "7", "1.png">> }

\* The tree with the entries of present, those of odd not of their usual kind
SampleTree(present, odd) ==
    [p \in SamplePaths |->
        IF p \notin present THEN "none"
        ELSE IF (p \in odd) = (UsualKind(p) = "dir") THEN "file" ELSE "dir"]

SampleTrees ==
    { t \in { SampleTree(present, odd) :
                present \in SUBSET SamplePaths, odd \in SUBSET OddPaths } :
        \A p \in SamplePaths : t[p] # "none" => IsDir(t, Parent(p)) }

SampleOrders ==
    { <<"1.png", "2.PNG", "5", "7", "9", "a.png", "b.png", "t.jpg", "x", "y">>,
      <<"y", "x", "t.jpg", "b.png", "a.png", "9", "7", "5", "2.PNG", "1.png">> }

\* No directory fails to list, or the root does, or one on the way down
NoPath == <<"-">>
FailingDirs == { NoPath, <<>>, <<"5">>, <<"5", "7">> }

InitSample ==
    /\ InitApp
    /\ ToolIdle
    /\ fn_in \in [tree : SampleTrees, order : SampleOrders, fails : FailingDirs]
    /\ fn_out = <<>>

\* _find_any_png_under applied to one tile root
ApplySample ==
    /\ fn_out = <<>>
    /\ fn_out' = <<FindAnyPngUnder(fn_in.tree, fn_in.order, fn_in.fails)>>
    /\ UNCHANGED <<appVars, toolVars, fn_in>>

SpecSample == InitSample /\ [][ApplySample]_vars

\* Degrees a transformed component may have
DegreeSamples == { -180, -91, -90, -45, 0, 45, 90, 91, 180 }

InitAxis == InitApp /\ ToolIdle /\ fn_in \in DegreeSamples \X DegreeSamples /\ fn_out = <<>>

\* The axis-order correction applied to one transformed pair
ApplyAxis ==
    /\ fn_out = <<>>
    /\ fn_out' = <<AxisCorrect(fn_in[1], fn_in[2])>>
    /\ UNCHANGED <<appVars, toolVars, fn_in>>

SpecAxis == InitAxis /\ [][ApplyAxis]_vars

\* Pairs TransformPoint may return for a corner: in range, with the
\* latitude first, out of range in both or in the first component only
CornerSamples ==
    { <<0, 0>>, <<120, 30>>, <<-180, -90>>, <<45, 91>>, <<-45, -135>>,
      <<91, 45>>, <<179, -85>> }

InitBounds ==
    /\ InitApp
    /\ ToolIdle
    /\ fn_in \in [1..4 -> CornerSamples]
    /\ fn_out = <<>>

\* Bounds and centre derived from the four transformed corners
ApplyBounds ==
    /\ fn_out = <<>>
    /\ fn_out' = <<PreviewBounds(fn_in)>>
    /\ UNCHANGED <<appVars, toolVars, fn_in>>

SpecBounds == InitBounds /\ [][ApplyBounds]_vars

\* ------------------------------------- the coordinate engine's runtime

\* In this specification fn_in is the installation the process found and
\* fn_out the module state of backend.py together with os.environ and
\* GDAL's configuration options.
Unset == ""

\* (p / "proj.db").exists() for the directories a PROJ_LIB may name
HasProjDb(d, inst) ==
    \/ d = "user_proj"
    \/ d = "wheel_proj" /\ inst.wheel_proj
    \/ d = "pyproj" /\ inst.pyproj

\* next(p for p in proj_dir_candidates if (p / "proj.db").exists()), None
ProjDir(inst) ==
    IF inst.wheel_proj THEN "wheel_proj"
    ELSE IF inst.pyproj THEN "pyproj" ELSE Unset

\* next(p for p in gdal_data_candidates if p.exists()), None
GdalDataDir(inst) == IF inst.wheel_gdal THEN "wheel_gdal" ELSE Unset

\* gdal.SetConfigOption(k, v) inside try/except: the option is set unless
\* the call raises
SetConfigOption(opts, k, v, inst) ==
    IF inst.setopt_ok THEN [opts EXCEPT ![k] = v] ELSE opts

\* os.environ.setdefault(k, v)
SetDefault(env, k, v) == IF env[k] = Unset THEN [env EXCEPT ![k] = v] ELSE env

\* backend.py:126-186: environment and options as _configure_gdal_runtime
\* leaves them before the smoke test
ConfiguredEnv(rt, inst) ==
    LET e1 == SetDefault(SetDefault(rt.environ, "GTIFF_SRS_SOURCE", "EPSG"),
                         "OSR_USE_NON_DEPRECATED", "YES")
        o1 == SetConfigOption(
                  SetConfigOption(rt.options, "GTIFF_SRS_SOURCE", "EPSG", inst),
                  "OSR_USE_NON_DEPRECATED", "YES", inst)
        proj_dir == ProjDir(inst)
        current_proj_ok ==
            e1["PROJ_LIB"] # Unset /\ HasProjDb(e1["PROJ_LIB"], inst)
        set_proj == proj_dir # Unset /\ ~current_proj_ok
        e2 == IF set_proj THEN [e1 EXCEPT !["PROJ_LIB"] = proj_dir] ELSE e1
        o2 == IF set_proj THEN SetConfigOption(o1, "PROJ_LIB", proj_dir, inst)
              ELSE o1
        gdal_data_dir == GdalDataDir(inst)
        current_gdal_ok == e2["GDAL_DATA"] = "user_data"
        set_data == gdal_data_dir # Unset /\ ~current_gdal_ok
        e3 == IF set_data THEN [e2 EXCEPT !["GDAL_DATA"] = gdal_data_dir] ELSE e2
        o3 == IF set_data THEN SetConfigOption(o2, "GDAL_DATA", gdal_data_dir, inst)
              ELSE o2
    IN  [environ |-> e3, options |-> o3]

ConfigureGdalRuntime_flagFirst(rt, inst, smoke_ok) ==
    IF rt.configured THEN [rt EXCEPT !.last = "already"]
    ELSE LET c == ConfiguredEnv(rt, inst) IN
         [configured |-> TRUE, environ |-> c.environ, options |-> c.options,
          last |-> IF smoke_ok THEN "configured" ELSE "smoke_failed"]

\* _configure_gdal_runtime, backend.py:107-207: smoke_ok is whether
\* ImportFromEPSG(3857) returned 0 without raising
ConfigureGdalRuntime(rt, inst, smoke_ok) ==
    IF rt.configured THEN [rt EXCEPT !.last = "already"]
    ELSE LET c == ConfiguredEnv(rt, inst) IN
         [configured |-> smoke_ok, environ |-> c.environ, options |-> c.options,
          last |-> IF smoke_ok THEN "configured" ELSE "smoke_failed"]

EnvNames == { "GTIFF_SRS_SOURCE", "OSR_USE_NON_DEPRECATED", "PROJ_LIB", "GDAL_DATA" }

\* What the process may inherit in os.environ
InheritedEnvs ==
    { [k \in EnvNames |->
          CASE k = "GTIFF_SRS_SOURCE" -> g
            [] k = "PROJ_LIB" -> pl
            [] k = "GDAL_DATA" -> gd
            [] OTHER -> Unset] :
      g \in { Unset, "GEOKEYS" },
      pl \in { Unset, "user_proj", "stale" },
      gd \in { Unset, "user_data", "gone" } }

Installations ==
    [import_error : BOOLEAN, wheel_proj : BOOLEAN, pyproj : BOOLEAN,
     wheel_gdal : BOOLEAN, setopt_ok : BOOLEAN]

\* The module as imported: _GDAL_RUNTIME_CONFIGURED = False (backend.py:67)
InitGdal ==
    /\ InitApp
    /\ ToolIdle
    /\ fn_in \in Installations
    /\ \E env \in InheritedEnvs :
          fn_out = [configured |-> FALSE, environ |-> env,
                    options |-> [k \in EnvNames |-> Unset], last |-> "none"]

\* One call of ensure_gdal_available
EnsureGdalAvailable ==
    /\ \E smoke_ok \in BOOLEAN :
          fn_out' = IF fn_in.import_error
                    THEN [fn_out EXCEPT !.last = "import_error"]
                    ELSE ConfigureGdalRuntime(fn_out, fn_in, smoke_ok)
    /\ UNCHANGED <<appVars, toolVars, fn_in>>

SpecGdal == InitGdal /\ [][EnsureGdalAvailable]_vars

\* ------------------------------------------------- the forwarding stream

MaxText == 4      \* characters the tool writes before the final flush

\* A text is a sequence of characters: a printing one, a blank, "\r", "\n"
CR == "CR"
LF == "LF"
Chars == { "a", " ", CR, LF }

\* s.replace("\r\n", "\n")
RECURSIVE ReplaceCRLF(_)
ReplaceCRLF(s) ==
    IF s = <<>> THEN <<>>
    ELSE IF Len(s) >= 2 /\ s[1] = CR /\ s[2] = LF
         THEN <<LF>> \o ReplaceCRLF(SubSeq(s, 3, Len(s)))
         ELSE <<s[1]>> \o ReplaceCRLF(Tail(s))

\* s.replace("\r", "\n")
ReplaceCR(s) == [i \in 1..Len(s) |-> IF s[i] = CR THEN LF ELSE s[i]]

\* line.strip() is empty
IsBlank(line) == \A i \in 1..Len(line) : line[i] \in { " ", CR, LF }

\* line.rstrip()
RECURSIVE RStrip(_)
RStrip(line) ==
    IF line # <<>> /\ line[Len(line)] \in { " ", CR, LF }
    THEN RStrip(SubSeq(line, 1, Len(line) - 1))
    ELSE line

\* The position of the first "\n" of buf, 0 if there is none
FirstLF(buf) ==
    IF \E i \in 1..Len(buf) : buf[i] = LF
    THEN CHOOSE i \in 1..Len(buf) :
             buf[i] = LF /\ \A j \in 1..(i - 1) : buf[j] # LF
    ELSE 0

RECURSIVE Drain_blankToo(_)
Drain_blankToo(st) ==
    LET k == FirstLF(st.buf) IN
    IF k = 0 THEN st
    ELSE Drain_blankToo([buf |-> SubSeq(st.buf, k + 1, Len(st.buf)),
                         logged |-> Append(st.logged, RStrip(SubSeq(st.buf, 1, k - 1)))])

\* The while loop of _LogStream.write, backend.py:426-429
RECURSIVE Drain(_)
Drain(st) ==
    LET k == FirstLF(st.buf)
        line == SubSeq(st.buf, 1, k - 1)
    IN  IF k = 0 THEN st
        ELSE Drain([buf |-> SubSeq(st.buf, k + 1, Len(st.buf)),
                    logged |-> IF IsBlank(line) THEN st.logged
                               ELSE Append(st.logged, RStrip(line))])

\* _LogStream.write, backend.py:422-430
LogStreamWrite(st, s) ==
    IF s = <<>> THEN st
    ELSE Drain([st EXCEPT !.buf = @ \o ReplaceCR(ReplaceCRLF(s))])

\* _LogStream.flush, backend.py:432-435
LogStreamFlush(st) ==
    [buf |-> <<>>,
     logged |-> IF IsBlank(st.buf) THEN st.logged
                ELSE Append(st.logged, RStrip(st.buf))]

\* _LogStream.__init__, backend.py:417-420
NewStream == [buf |-> <<>>, logged |-> <<>>]

\* Every text of at most MaxText characters
Texts == UNION { [1..n -> Chars] : n \in 0..MaxText }

\* The text cut after the positions in cuts, as the successive arguments
\* of write
RECURSIVE ChunksFrom(_, _, _)
ChunksFrom(text, cuts, from) ==
    IF from > Len(text) THEN <<>>
    ELSE LET later == { c \in cuts : c >= from }
             to == IF later = {} THEN Len(text)
                   ELSE CHOOSE c \in later : \A d \in later : c <= d
         IN  <<SubSeq(text, from, to)>> \o ChunksFrom(text, cuts, to + 1)

\* In this specification fn_in is the text and the chunks the tool writes
\* it in (an empty first write included), fn_out the stream and the number
\* of writes made.
InitStream ==
    /\ InitApp
    /\ ToolIdle
    /\ \E text \in Texts, empty_first \in BOOLEAN :
         \E cuts \in SUBSET (1..(Len(text) - 1)) :
            fn_in = [text |-> text,
                     chunks |-> (IF empty_first THEN << <<>> >> ELSE <<>>)
                                \o ChunksFrom(text, cuts, 1)]
    /\ fn_out = [stream |-> NewStream, written |-> 0, flushed |-> FALSE]

\* The tool writes its next chunk
StreamWrite ==
    /\ fn_out.written < Len(fn_in.chunks)
    /\ fn_out' = [fn_out EXCEPT
                    !.stream = LogStreamWrite(@, fn_in.chunks[fn_out.written + 1]),
                    !.written = @ + 1]
    /\ UNCHANGED <<appVars, toolVars, fn_in>>

\* stream.flush() in the finally clause of _run_gdal2tiles_inprocess
\* (backend.py:471-475)
StreamFlush ==
    /\ fn_out.written = Len(fn_in.chunks)
    /\ ~fn_out.flushed
    /\ fn_out' = [fn_out EXCEPT !.stream = LogStreamFlush(@), !.flushed = TRUE]
    /\ UNCHANGED <<appVars, toolVars, fn_in>>

SpecStream == InitStream /\ [][StreamWrite \/ StreamFlush]_vars

\* ------------------------------------------ the georeference tool at work

restVars == <<appVars, fn_in, fn_out>>

\* if x: for a string or None
Truthy(x) == x # Null /\ x # ""

InjGoto(to) == inj' = [inj EXCEPT !.pc = to]

\* An exception leaves _apply_georef_from_json before the dataset is open
InjRaise(e) == inj' = [inj EXCEPT !.pc = "done", !.exc = e]

\* apply_embed_and_save calls _apply_georef_from_json (geotiff_tool.py:699)
\* with the paths of its entry widgets
InjCall ==
    /\ inj.pc = "idle"
    /\ inj.georef_file # ""
    /\ inj.edited_file # ""
    /\ InjGoto("check")
    /\ UNCHANGED <<disk, dirs, extract_data, gdal_env, restVars>>

\* geotiff_tool.py:817-820
InjCheckFiles ==
    /\ inj.pc = "check"
    /\ IF ~IsFile(inj.georef_file) \/ ~IsFile(inj.edited_file)
       THEN InjRaise("FileNotFoundError")
       ELSE InjGoto("load")
    /\ UNCHANGED <<disk, dirs, extract_data, gdal_env, restVars>>

\* geotiff_tool.py:822-823: json.load of a file that is no document fails
InjLoad ==
    /\ inj.pc = "load"
    /\ IF disk[inj.georef_file].type # "json"
       THEN InjRaise("JSONDecodeError")
       ELSE inj' = [inj EXCEPT !.pc = "format",
                               !.data = FromJson(disk[inj.georef_file])]
    /\ UNCHANGED <<disk, dirs, extract_data, gdal_env, restVars>>

InjFormat_late ==
    /\ inj.pc = "format"
    /\ InjGoto("mkdir")
    /\ UNCHANGED <<disk, dirs, extract_data, gdal_env, restVars>>

\* geotiff_tool.py:825-826
InjFormat ==
    /\ inj.pc = "format"
    /\ IF inj.data.format # GeorefFormat
       THEN InjRaise("ValueError")
       ELSE InjGoto("mkdir")
    /\ UNCHANGED <<disk, dirs, extract_data, gdal_env, restVars>>

\* geotiff_tool.py:828-830
InjMakedirs ==
    /\ inj.pc = "mkdir"
    /\ LET out_dir == DirName(inj.output_file) IN
       IF out_dir # "" /\ out_dir \notin dirs
       THEN /\ dirs' = dirs \cup {out_dir}
            /\ inj' = [inj EXCEPT !.pc = "copy",
                                   !.events = Append(@, "makedirs")]
       ELSE /\ InjGoto("copy")
            /\ UNCHANGED dirs
    /\ UNCHANGED <<disk, extract_data, gdal_env, restVars>>

InjCopy_inPlace ==
    /\ inj.pc = "copy"
    /\ disk' = [disk EXCEPT ![inj.output_file] = disk[inj.edited_file]]
    /\ inj' = [inj EXCEPT !.pc = "open", !.events = Append(@, "copy2")]
    /\ UNCHANGED <<dirs, extract_data, gdal_env, restVars>>

\* geotiff_tool.py:833: shutil.copy2 refuses to copy a file onto itself
InjCopy ==
    /\ inj.pc = "copy"
    /\ IF inj.output_file = inj.edited_file
       THEN /\ InjRaise("SameFileError")
            /\ UNCHANGED disk
       ELSE /\ disk' = [disk EXCEPT ![inj.output_file] = disk[inj.edited_file]]
            /\ inj' = [inj EXCEPT !.pc = "open", !.events = Append(@, "copy2")]
    /\ UNCHANGED <<dirs, extract_data, gdal_env, restVars>>

InjOpen_anyway ==
    /\ inj.pc = "open"
    /\ inj' = [inj EXCEPT !.pc = "set_gt",
                           !.events = Append(@, "Open"),
                           !.ds = [path |-> inj.output_file, mode |-> "update",
                                   content |-> disk[inj.output_file]]]
    /\ UNCHANGED <<disk, dirs, extract_data, gdal_env, restVars>>

\* geotiff_tool.py:835-837: gdal.Open(output_file, gdal.GA_Update)
InjOpen ==
    /\ inj.pc = "open"
    /\ IF disk[inj.output_file].type = "tif" /\ gdal_env.update_ok
       THEN inj' = [inj EXCEPT !.pc = "set_gt",
                               !.events = Append(@, "Open"),
                               !.ds = [path |-> inj.output_file, mode |-> "update",
                                       content |-> disk[inj.output_file]]]
       ELSE InjRaise("RuntimeError")
    /\ UNCHANGED <<disk, dirs, extract_data, gdal_env, restVars>>

\* The handle after one Set call, and the frame after it
DsWith(content) == [inj.ds EXCEPT !.content = content]

InjWrote(to, ev, content) ==
    inj' = [inj EXCEPT !.pc = to, !.events = Append(@, ev), !.ds = DsWith(content)]

InjSetGeoTransform_always ==
    /\ inj.pc = "set_gt"
    /\ InjWrote("set_proj", "SetGeoTransform",
                [inj.ds.content EXCEPT !.gt = inj.data.gt])
    /\ UNCHANGED <<disk, dirs, extract_data, gdal_env, restVars>>

\* geotiff_tool.py:840-842
InjSetGeoTransform ==
    /\ inj.pc = "set_gt"
    /\ IF Truthy(inj.data.gt)
       THEN InjWrote("set_proj", "SetGeoTransform",
                     [inj.ds.content EXCEPT !.gt = inj.data.gt])
       ELSE InjGoto("set_proj")
    /\ UNCHANGED <<disk, dirs, extract_data, gdal_env, restVars>>

\* geotiff_tool.py:844-846
InjSetProjection ==
    /\ inj.pc = "set_proj"
    /\ LET proj == OrEmpty(inj.data.proj) IN
       IF Truthy(proj)
       THEN InjWrote("set_gcps", "SetProjection",
                     [inj.ds.content EXCEPT !.proj = proj])
       ELSE InjGoto("set_gcps")
    /\ UNCHANGED <<disk, dirs, extract_data, gdal_env, restVars>>

\* geotiff_tool.py:848-864
InjSetGCPs ==
    /\ inj.pc = "set_gcps"
    /\ LET gcps_data == inj.data.gcps
           gcp_proj == OrEmpty(inj.data.gcp_proj)
       IN IF gcps_data # <<>>
          THEN InjWrote("flush", "SetGCPs",
                        [inj.ds.content EXCEPT !.gcps = Map(GcpFromDict, gcps_data),
                                               !.gcp_proj = gcp_proj])
          ELSE InjGoto("flush")
    /\ UNCHANGED <<disk, dirs, extract_data, gdal_env, restVars>>

InjFlush_skipped ==
    /\ inj.pc = "flush"
    /\ InjGoto("close")
    /\ UNCHANGED <<disk, dirs, extract_data, gdal_env, restVars>>

\* geotiff_tool.py:871: ds.FlushCache() writes the handle's state to the file
InjFlush ==
    /\ inj.pc = "flush"
    /\ disk' = [disk EXCEPT ![inj.ds.path] = inj.ds.content]
    /\ inj' = [inj EXCEPT !.pc = "close", !.events = Append(@, "FlushCache")]
    /\ UNCHANGED <<dirs, extract_data, gdal_env, restVars>>

\* geotiff_tool.py:872-873: `ds = None` closes the dataset, which writes what
\* the handle still holds, and the function returns
InjClose ==
    /\ inj.pc = "close"
    /\ disk' = [disk EXCEPT ![inj.ds.path] = inj.ds.content]
    /\ inj' = [inj EXCEPT !.pc = "done", !.ds = NoDs,
                           !.events = Append(@, "close")]
    /\ UNCHANGED <<dirs, extract_data, gdal_env, restVars>>

InjStep ==
    \/ InjCall
    \/ InjCheckFiles
    \/ InjLoad
    \/ InjFormat
    \/ InjMakedirs
    \/ InjCopy
    \/ InjOpen
    \/ InjSetGeoTransform
    \/ InjSetProjection
    \/ InjSetGCPs
    \/ InjFlush
    \/ InjClose

\* Sample georeference: of the record (A) and of the target raster (B)
GcpsA == << GCP("p1", "north", "1"), GCP("p2", "", "2") >>
GcpsB == << GCP("q1", "", "7") >>

\* Target rasters: every combination of carrying a transform, a projection
\* and GCPs of its own
RastersB ==
    { File("tif", "", "pixB", gt, proj, g[1], g[2], "metaB") :
        gt \in {Null, "gtB"}, proj \in {"", "projB"},
        g \in { <<"", <<>>>>, <<"gcpProjB", GcpsB>> } }

\* Interchange documents as a user may hand them in: the tag right, wrong
\* or missing, each field present or not
Documents ==
    { File("json", format, "sizeA", gt, proj, gcp_proj, gcps, "metaA") :
        format \in {GeorefFormat, "other_v2", Null},
        gt \in {Null, "gtA"}, proj \in {"", "projA"},
        gcp_proj \in {"", "gcpProjA"},
        gcps \in {<<>>, Map(GcpToDict, GcpsA)} }

OldOutput == File("tif", "", "pixOld", "gtOld", "projOld", "", <<>>, "metaOld")

\* One injection with arbitrary arguments: the document and the target may
\* be missing, the output may exist already, lie in a directory that does
\* not exist yet, or name the target or the document itself
InitInject ==
    /\ InitApp
    /\ fn_in = <<>>
    /\ fn_out = <<>>
    /\ \E doc \in Documents \cup {NoFile}, b \in RastersB \cup {NoFile},
          old \in {OldOutput, NoFile} :
          disk = [p \in Paths |->
                    CASE p = "doc.json" -> doc
                      [] p = "b.tif" -> b
                      [] p = "out.tif" -> old
                      [] OTHER -> NoFile]
    /\ dirs = {""}
    /\ \E g \in {"doc.json", "b.tif"},
          o \in {"out.tif", "new/out.tif", "b.tif", "doc.json"} :
          inj = IdleFrame(g, "b.tif", o)
    /\ extract_data = NoExtract
    /\ gdal_env \in [update_ok : BOOLEAN, nullable : {TRUE}]

SpecInject == InitInject /\ [][InjStep]_vars

\* _extract_and_show (geotiff_tool.py:448-465) on the source raster or on
\* the output of the injection, between calls of the injector
ExtractAndShow ==
    /\ inj.pc \in {"idle", "done"}
    /\ \E input_file \in {"a.tif", inj.output_file} :
         LET r == ExtractGeorefData(disk[input_file], gdal_env.nullable) IN
         extract_data' = [exc |-> r.exc, data |-> r.data, input_file |-> input_file]
    /\ UNCHANGED <<disk, dirs, inj, gdal_env, restVars>>

\* save_extracted_georef (geotiff_tool.py:424-446) into the document the
\* embed tab is pointed at; it lies in the working directory
SaveExtractedGeoref ==
    /\ inj.pc \in {"idle", "done"}
    /\ extract_data.data # NoFile
    /\ disk' = [disk EXCEPT ![inj.georef_file] = ToJson(extract_data.data)]
    /\ UNCHANGED <<dirs, inj, extract_data, gdal_env, restVars>>

\* Source rasters: with or without transform, projection (GDAL may report
\* none as None or as ""), GCPs and GCP projection
RastersA ==
    { File("tif", "", "pixA", gt, proj, gcp_proj, gcps, "metaA") :
        gt \in {Null, "gtA"}, proj \in {Null, "", "projA"},
        gcp_proj \in {"", "gcpProjA"}, gcps \in {<<>>, GcpsA} }

\* Extract from A, save the document, inject it into B, extract again
InitRoundTrip ==
    /\ InitApp
    /\ fn_in = <<>>
    /\ fn_out = <<>>
    /\ \E a \in RastersA, b \in RastersB :
          disk = [p \in Paths |->
                    CASE p = "a.tif" -> a
                      [] p = "b.tif" -> b
                      [] OTHER -> NoFile]
    /\ dirs = {""}
    /\ inj = IdleFrame("doc.json", "b.tif", "new/out.tif")
    /\ extract_data = NoExtract
    /\ gdal_env \in [update_ok : {TRUE}, nullable : BOOLEAN]

NextRoundTrip ==
    \/ ExtractAndShow
    \/ SaveExtractedGeoref
    \/ InjStep

SpecRoundTrip == InitRoundTrip /\ [][NextRoundTrip]_vars

\* ------------------------------------------------------------- properties

Pos(seq, x) ==
    IF Has(seq, x)
    THEN CHOOSE i \in 1..Len(seq) : seq[i] = x /\ \A j \in 1..(i - 1) : seq[j] # x
    ELSE 0

\* step b of a run happens only after its step a has happened
Before(seq, a, b) == Has(seq, b) => (Has(seq, a) /\ Pos(seq, a) < Pos(seq, b))

Terminals(w) == Count(trace[w], "DONE") + Count(trace[w], "ERR")

\* C1: at most one worker thread is alive at any time; while one is alive no
\* step creates another, and a start that is turned away with the "still
\* processing" dialog creates no thread and queues nothing.
C1_AtMostOneRun ==
    [][ /\ Cardinality(AliveSet') <= 1
        /\ (AliveSet # {} => AliveSet' \subseteq AliveSet)
        /\ (dialog' = "busy" /\ dialog # "busy"
              => UNCHANGED <<pc, args, worker, log_queue, run_btn>>) ]_vars

C1_Witness == dialog = "busy" /\ run_btn = "normal" /\ WorkerBusy

C3_DeriveAfterTiling ==
    \A w \in Threads :
        /\ Before(trace[w], "reproject", "tile")
        /\ Before(trace[w], "tile", "derive")
        /\ Before(trace[w], "derive", "locate")
        /\ Before(trace[w], "locate", "page")
        /\ Before(trace[w], "page", "cleanup")

\* C3 as amended: reprojection, metadata derivation, tiling, layout location,
\* page generation, cleanup happen in this order, each at most once: the
\* derivation runs before the tiling starts.
C3_StepOrder ==
    \A w \in Threads :
        /\ Before(trace[w], "reproject", "derive")
        /\ Before(trace[w], "derive", "tile")
        /\ Before(trace[w], "tile", "locate")
        /\ Before(trace[w], "locate", "page")
        /\ Before(trace[w], "page", "cleanup")
        /\ \A s \in {"reproject", "derive", "tile", "locate", "page", "cleanup"} :
              Count(trace[w], s) <= 1

C3_Witness ==
    \E w \in Threads :
        \A s \in {"reproject", "derive", "tile", "locate", "page", "cleanup"} :
            Has(trace[w], s)

\* Exceptions raised by validation, reprojection or tiling
EarlyFailures ==
    { "gdal unavailable", "not a GeoTIFF", "warp failed", "no GeoTransform",
      "bad zoom range", "gdal2tiles failed" }

\* C4: once validation, reprojection or tiling has failed, the run executes
\* none of layout location, page generation and cleanup, and no step taken
\* from then on until the thread ends creates, changes or deletes a file.
C4_AbortLeavesFiles ==
    /\ [](\A w \in Threads :
            err[w] \in EarlyFailures =>
              /\ pc[w] \in {"err_log", "err_put", "exit"}
              /\ \A s \in {"locate", "page", "keep", "cleanup", "unlink",
                           "unlink failed", "rmdir", "rmdir failed", "DONE"} :
                    ~Has(trace[w], s))
    /\ [][(\E w \in Threads : err[w] \in EarlyFailures) => fs' = fs]_vars

C4_Witness ==
    \E w \in Threads : /\ err[w] = "gdal2tiles failed"
                       /\ pc[w] = "exit"
                       /\ {"warped", "tiles"} \subseteq fs
                       /\ "index.html" \notin fs

\* C5: a run whose unlink or rmdir failed raises no exception and ends with
\* __DONE__, never __ERR__; a run that found the keep option set attempts
\* neither deletion and changes no file from then on.
C5_CleanupNeverFails ==
    /\ [](\A w \in Threads :
            /\ (Has(trace[w], "unlink failed") \/ Has(trace[w], "rmdir failed")
                  => /\ err[w] = ""
                     /\ ~Has(trace[w], "ERR")
                     /\ pc[w] \in {"rmdir", "done_log", "done_put", "exit"}
                     /\ (pc[w] = "exit" => Has(trace[w], "DONE")))
            /\ (Has(trace[w], "keep")
                  => \A s \in {"cleanup", "unlink", "unlink failed", "rmdir",
                               "rmdir failed"} : ~Has(trace[w], s)))
    /\ [][(\E w \in Threads : Has(trace[w], "keep")) => fs' = fs]_vars

C5_Witness ==
    \E w \in Threads : /\ pc[w] = "exit"
                       /\ Has(trace[w], "unlink failed")
                       /\ Has(trace[w], "rmdir failed")
                       /\ Has(trace[w], "DONE")

\* C6: no step of a worker thread changes an attribute or widget variable
\* of the controlling thread; the worker writes the queue, its locals and
\* the files only.
C6_WorkerWritesNothingShared ==
    [][(\E w \in Threads : WorkerStep(w))
         => UNCHANGED <<last_preview, keep_tmp_var, worker, run_btn, open_btn,
                        suggest_lbl, logbox, dialog>>]_vars

\* C7: every change of the queue is either an append at its tail or the
\* removal of its head by the pump, which then handles exactly that
\* message; a pump that finds the queue empty ends at once with the next
\* poll scheduled, and a poll is always pending while the pump is not
\* running.
C7_FifoExactlyOnce ==
    /\ [][ /\ \/ log_queue' = log_queue
              \/ IsPrefix(log_queue, log_queue')
              \/ /\ ctl_pc = "pump"
                 /\ log_queue # <<>>
                 /\ log_queue' = Tail(log_queue)
                 /\ msg' = Head(log_queue)
           /\ (ctl_pc = "pump" /\ log_queue = <<>> /\ ctl_pc' # ctl_pc
                 => ctl_pc' = "idle" /\ after_pending')
           /\ (ctl_pc = "pump" /\ log_queue # <<>> => ctl_pc' = "pump") ]_vars
    /\ [](ctl_pc = "idle" => after_pending)
    /\ [](ctl_pc = "pump" /\ log_queue = <<>> => ENABLED PumpEmpty)

C7_Witness ==
    /\ ctl_pc = "idle"
    /\ after_pending
    /\ log_queue = <<>>
    /\ msg = Msg("__DONE__", "")
    /\ AliveSet = {}

Swapped(a, b) == [lon |-> b, lat |-> a]

Unswapped(a, b) == [lon |-> a, lat |-> b]

\* C8 as claimed: a pair is swapped when |first| > 90 and |second| <= 90, and
\* is not swapped when neither or both magnitudes exceed 90.
C8_SwapWhenFirstOver90 ==
    fn_out # <<>> =>
        LET a == fn_in[1]
            b == fn_in[2]
        IN /\ (Abs(a) > 90 /\ Abs(b) <= 90 => fn_out[1] = Swapped(a, b))
           /\ (Abs(a) <= 90 /\ Abs(b) <= 90 => fn_out[1] = Unswapped(a, b))
           /\ (Abs(a) > 90 /\ Abs(b) > 90 => fn_out[1] = Unswapped(a, b))

\* C8 as amended: a pair is swapped when |second| > 90 and |first| <= 90, and
\* is not swapped when neither or both magnitudes exceed 90, nor when only
\* the first does.
C8_SwapWhenSecondOver90 ==
    fn_out # <<>> =>
        LET a == fn_in[1]
            b == fn_in[2]
        IN /\ (Abs(b) > 90 /\ Abs(a) <= 90 => fn_out[1] = Swapped(a, b))
           /\ (Abs(a) <= 90 /\ Abs(b) <= 90 => fn_out[1] = Unswapped(a, b))
           /\ (Abs(a) > 90 /\ Abs(b) > 90 => fn_out[1] = Unswapped(a, b))
           /\ (Abs(a) > 90 /\ Abs(b) <= 90 => fn_out[1] = Unswapped(a, b))

C8_Witness ==
    /\ fn_out # <<>>
    /\ fn_in = <<45, 91>>
    /\ fn_out[1] = [lon |-> 91, lat |-> 45]

\* C9: for a pixel width r > 0 the suggestion z is in 0..22 and is the
\* clamped least integer with 2^z >= base / r: 2^z reaches the ratio unless
\* z is clamped at 22, 2^(z-1) does not unless z is clamped at 0; and a
\* pixel width of 10 m gives 14.
C9_ZoomIsClampedCeilLog2 ==
    fn_out # <<>> /\ fn_in[1] > 0 =>
        LET r == fn_in[1]
            z == fn_out[1]
            ratio == CeilDiv(BaseResMM, r)
        IN /\ z \in 0..22
           /\ (z < 22 => Pow2(z) >= ratio)
           /\ (z > 0 => Pow2(z - 1) < ratio)
           /\ (r = 10000 => z = 14)

C9_Witness == fn_out # <<>> /\ fn_in[1] = 10000 /\ fn_out[1] = 14

\* C10: for pixel widths 0 < r1 < r2 the suggestion for r1 is at least the
\* suggestion for r2.
C10_ZoomMonotone ==
    fn_out # <<>> /\ 0 < fn_in[1] /\ fn_in[1] < fn_in[2] => fn_out[1] >= fn_out[2]

C10_Witness ==
    /\ fn_out # <<>>
    /\ 0 < fn_in[1]
    /\ fn_in[1] < fn_in[2]
    /\ fn_out[1] > fn_out[2]
    /\ fn_out[2] > 0

\* The pixel-width coefficient of the transform under check, when it has one
\* that is a finite number
HasWidth == Len(fn_in[1]) >= 2 /\ fn_in[1][2].kind = "num"
Width == fn_in[1][2].mm

\* C11 as claimed: a pixel-width coefficient <= 0, zero or negative, gives
\* an absent suggestion and no error; so does a malformed or degenerate
\* transform.
C11_NonPositiveIsAbsent ==
    fn_out # <<>> =>
        /\ fn_out[1].exc = ""
        /\ (HasWidth /\ Width <= 0 => fn_out[1].value = None)
        /\ (~HasWidth => fn_out[1].value = None)

\* C11 as amended: the call never raises; a coefficient of zero, a
\* transform cut short and a coefficient that is no finite number give an
\* absent suggestion; a negative coefficient gives the suggestion of its
\* magnitude, an integer in 0..22.
C11_ZeroIsAbsentNegativeIsMagnitude ==
    fn_out # <<>> =>
        /\ fn_out[1].exc = ""
        /\ (HasWidth /\ Width = 0 => fn_out[1].value = None)
        /\ (~HasWidth => fn_out[1].value = None)
        /\ (HasWidth /\ Width < 0 =>
              LET z == fn_out[1].value
                  ratio == CeilDiv(BaseResMM, -Width)
              IN /\ z \in 0..22
                 /\ (z < 22 => Pow2(z) >= ratio)
                 /\ (z > 0 => Pow2(z - 1) < ratio))

C11_Witness ==
    /\ fn_out # <<>>
    /\ HasWidth
    /\ Width = -10000
    /\ fn_out[1] = Returned(14)

\* C12: whenever out_dir directly holds a directory named for an integer in
\* 0..30, the root is out_dir and the template is ./{z}/{x}/{y}.png, whatever
\* else out_dir holds, children with zoom directories of their own included,
\* and whether or not out_dir can be listed.
C12_DirectCase ==
    fn_out # <<>> /\ (\E n \in ZoomNames : IsDir(fn_in.tree, <<n>>)) =>
        /\ fn_out[1].root = <<>>
        /\ fn_out[1].template = <<".", "{z}", "{x}", "{y}.png">>

C12_Witness ==
    /\ fn_out # <<>>
    /\ IsDir(fn_in.tree, <<"30">>)
    /\ IsDir(fn_in.tree, <<"tiles", "0">>)
    /\ fn_in.order[1] = "tiles"
    /\ fn_out[1].template = <<".", "{z}", "{x}", "{y}.png">>

\* out_dir holds no zoom directory itself, but child c of it does
NestedCase(c) ==
    /\ ~HasZoomDir(fn_in.tree, <<>>)
    /\ IsDir(fn_in.tree, <<c>>)
    /\ HasZoomDir(fn_in.tree, <<c>>)

\* The root is the first child in listing order that holds a zoom directory
RootIsFirstNested ==
    LET listed == IterDir(fn_in.tree, fn_in.order)
        root == fn_out[1].root
    IN /\ Len(root) = 1
       /\ NestedCase(root[1])
       /\ \A i, j \in 1..Len(listed) :
             listed[j] = root[1] /\ i < j => ~NestedCase(listed[i])
       /\ fn_out[1].template = <<".", root[1], "{z}", "{x}", "{y}.png">>

C14_FormatGate ==
    /\ [][inj.pc = "format" /\ inj.data.format # GeorefFormat
            => inj'.pc = "done" /\ inj'.exc = "ValueError"]_vars
    /\ [][inj.pc \in {"idle", "check", "load", "format"} \/ inj.exc = "ValueError"
            => UNCHANGED <<disk, dirs>>]_vars
    /\ [](inj.exc = "ValueError" => inj.events = <<>> /\ inj.ds = NoDs)

C14_Witness ==
    /\ inj.pc = "done"
    /\ inj.exc = "ValueError"
    /\ inj.data.format = "other_v2"
    /\ inj.output_file = "out.tif"
    /\ disk["out.tif"] = OldOutput
    /\ disk["new/out.tif"] = NoFile

\* C15: no step of an injection, successful or failed, changes what the
\* target input raster holds or any file other than the one at the output
\* path, and the dataset opened in update mode is never the input raster,
\* also when the output path names the input.
C15_InputUntouched ==
    /\ [][disk'[inj.edited_file] = disk[inj.edited_file]]_vars
    /\ [][\A p \in Paths : p # inj.output_file => disk'[p] = disk[p]]_vars
    /\ [](inj.ds.mode = "update" => inj.ds.path # inj.edited_file)

C15_Witness ==
    /\ inj.pc = "done"
    /\ inj.exc = ""
    /\ inj.output_file = "out.tif"
    /\ disk["b.tif"].gt = "gtB"
    /\ disk["out.tif"].gt = "gtA"
    /\ disk["out.tif"].pixels = "pixB"

\* The frame of an injection that has returned without an exception
InjSucceeded == inj.pc = "done" /\ inj.exc = ""

\* C17: after a successful injection the output copy holds the record's
\* transform if the record has one, its projection if that is non-empty,
\* its GCPs together with its GCP projection (empty or not) if its GCP list
\* is non-empty; each Set call is made in exactly these cases, every field
\* not written is the target raster's, and so are pixels and metadata.
C17_WritesOnlyWhatIsCarried ==
    InjSucceeded =>
        LET out == disk[inj.output_file]
            b == disk[inj.edited_file]
            d == inj.data
        IN /\ (Has(inj.events, "SetGeoTransform") <=> Truthy(d.gt))
           /\ out.gt = (IF Truthy(d.gt) THEN d.gt ELSE b.gt)
           /\ (Has(inj.events, "SetProjection") <=> Truthy(d.proj))
           /\ out.proj = (IF Truthy(d.proj) THEN d.proj ELSE b.proj)
           /\ (Has(inj.events, "SetGCPs") <=> d.gcps # <<>>)
           /\ (d.gcps # <<>> =>
                 /\ Len(out.gcps) = Len(d.gcps)
                 /\ \A i \in 1..Len(d.gcps) : out.gcps[i].pos = d.gcps[i].pos
                 /\ out.gcp_proj = d.gcp_proj)
           /\ (d.gcps = <<>> => out.gcps = b.gcps /\ out.gcp_proj = b.gcp_proj)
           /\ out.meta = b.meta
           /\ out.pixels = b.pixels

C17_Witness ==
    /\ InjSucceeded
    /\ inj.data.gt = Null
    /\ inj.data.gcps # <<>>
    /\ inj.data.gcp_proj = ""
    /\ disk["b.tif"].gcp_proj = "gcpProjB"
    /\ disk["b.tif"].gt = "gtB"
    /\ disk[inj.output_file].gcp_proj = ""
    /\ disk[inj.output_file].gt = "gtB"
    /\ disk[inj.output_file].meta = "metaB"

\* C19: when the document or the target raster is missing the injector
\* fails with FileNotFoundError and no step up to that failure or after it
\* creates a directory or a file; when the copy cannot be opened in update
\* mode it fails with the open error (RuntimeError) and holds no dataset.
C19_NotFoundAndOpenError ==
    /\ [][inj.pc = "check" /\ (~IsFile(inj.georef_file) \/ ~IsFile(inj.edited_file))
            => inj'.pc = "done" /\ inj'.exc = "FileNotFoundError"]_vars
    /\ [][inj.pc \in {"idle", "check"} \/ inj.exc = "FileNotFoundError"
            => UNCHANGED <<disk, dirs>>]_vars
    /\ [](inj.exc = "FileNotFoundError" => inj.events = <<>>)
    /\ [][inj.pc = "open" /\ (~gdal_env.update_ok \/ disk[inj.output_file].type # "tif")
            => inj'.pc = "done" /\ inj'.exc = "RuntimeError" /\ inj'.ds = NoDs]_vars

C19_Witness ==
    /\ inj.pc = "done"
    /\ inj.exc = "FileNotFoundError"
    /\ disk["doc.json"].format = GeorefFormat
    /\ disk["b.tif"] = NoFile
    /\ inj.output_file = "new/out.tif"
    /\ "new" \notin dirs
    /\ disk["new/out.tif"] = NoFile

\* C20: when the injector has returned without an exception, FlushCache was
\* called once, after every SetGeoTransform, SetProjection and SetGCPs call
\* and before the dataset was closed and the function returned; from the
\* flush on the file holds everything the handle was given.
C20_FlushBeforeReturn ==
    /\ (InjSucceeded =>
          /\ Count(inj.events, "FlushCache") = 1
          /\ \A ev \in {"SetGeoTransform", "SetProjection", "SetGCPs"} :
                Has(inj.events, ev) => Pos(inj.events, ev) < Pos(inj.events, "FlushCache")
          /\ Pos(inj.events, "FlushCache") < Pos(inj.events, "close"))
    /\ (inj.pc = "close" /\ inj.exc = "" => disk[inj.ds.path] = inj.ds.content)

C20_Witness ==
    /\ InjSucceeded
    /\ inj.events = <<"makedirs", "copy2", "Open", "SetGeoTransform",
                      "SetProjection", "SetGCPs", "FlushCache", "close">>
    /\ disk["new/out.tif"].gcp_proj = "gcpProjA"

\* What the extractor returns for raster A
RecordOfA == ExtractGeorefData(disk["a.tif"], gdal_env.nullable).data

\* C16: when the record extracted from A has been injected into B and the
\* output has been extracted again, the geotransform, the projection, the
\* GCP list in order and the GCP projection of the second record equal
\* those of A's record, whatever B carried and whatever A lacks.
C16_RoundTrip ==
    /\ InjSucceeded
    /\ inj.data = FromJson(ToJson(RecordOfA))
    /\ extract_data.input_file = inj.output_file
    /\ extract_data.exc = ""
    => /\ extract_data.data.gt = RecordOfA.gt
       /\ extract_data.data.proj = RecordOfA.proj
       /\ extract_data.data.gcps = RecordOfA.gcps
       /\ extract_data.data.gcp_proj = RecordOfA.gcp_proj

\* C18: every record the extractor returns has the format tag, the size of
\* the raster it was read from, projection and GCP projection as strings,
\* "" when the raster reports none; a raster without transform is read
\* without error and gives a null geotransform.
C18_RecordShape ==
    /\ (extract_data.input_file # "" /\ disk[extract_data.input_file].type = "tif"
          => extract_data.exc = "")
    /\ (extract_data.input_file # "" /\ extract_data.exc = "" =>
          LET r == extract_data.data
              raster == disk[extract_data.input_file]
          IN /\ r.format = GeorefFormat
             /\ r.pixels # "" /\ r.pixels = raster.pixels
             /\ r.proj # Null /\ r.gcp_proj # Null
             /\ (raster.proj \in {Null, ""} => r.proj = "")
             /\ (raster.gcp_proj \in {Null, ""} => r.gcp_proj = "")
             /\ (raster.gt = Null => r.gt = Null))

\* C22: a run whose deletion of the intermediate raster failed still
\* attempts to remove the cache directory before it goes on; the directory
\* is removed only when it holds nothing, and no step of the cleanup
\* deletes anything but the intermediate raster and the empty directory.
C22_CleanupStepsIndependent ==
    /\ [](\A w \in Threads :
            Has(trace[w], "unlink failed") /\ pc[w] # "rmdir"
              => Has(trace[w], "rmdir") \/ Has(trace[w], "rmdir failed"))
    /\ [][/\ ("cache_dir" \in fs /\ "cache_dir" \notin fs'
                => fs \cap {"warped", "cache_other"} = {})
          /\ fs \ fs' \subseteq {"warped", "cache_dir"}
          /\ (\A w \in Threads : pc[w] = "rmdir" => fs \ fs' \subseteq {"cache_dir"})
         ]_vars

C22_Witness ==
    \E w \in Threads :
        /\ Has(trace[w], "unlink failed")
        /\ Has(trace[w], "rmdir failed")
        /\ {"warped", "cache_dir", "cache_other"} \subseteq fs

\* Neither out_dir nor a child directory of it holds a zoom directory
NoEvidence ==
    /\ ~HasZoomDir(fn_in.tree, <<>>)
    /\ \A c \in DOMAIN fn_in.order : ~NestedCase(fn_in.order[c])

IsTileShaped(t, p) ==
    /\ Len(p) = 3
    /\ p \in DOMAIN t
    /\ t[p] = "file"
    /\ p[3] \in PngNames
    /\ p[1] \in DigitNames /\ t[<<p[1]>>] = "dir"
    /\ p[2] \in DigitNames /\ t[<<p[1], p[2]>>] = "dir"

\* C24: the sample tile is either absent or a file exactly three levels
\* below the root, <digit dir>/<digit dir>/<file with suffix .png in any
\* letter case>; it is absent when the root holds no such file.
C24_SampleIsTileShaped ==
    fn_out # <<>> =>
        /\ fn_out[1].kind \in {"found", "none"}
        /\ (fn_out[1].kind = "found" => IsTileShaped(fn_in.tree, fn_out[1].path))
        /\ ((\A p \in SamplePaths : ~IsTileShaped(fn_in.tree, p))
              => fn_out[1] = NotFound)

C24_Witness ==
    /\ fn_out # <<>>
    /\ fn_out[1] = Found(<<"5", "7", "1.png">>)
    /\ fn_in.tree[<<"a.png">>] = "file"
    /\ fn_in.tree[<<"5", "b.png">>] = "file"
    /\ fn_in.tree[<<"5", "y", "1.png">>] = "file"
    /\ fn_in.tree[<<"x", "7", "1.png">>] = "file"
    /\ fn_in.tree[<<"5", "7", "9", "1.png">>] = "file"
    /\ fn_in.order[1] = "y"

\* C21: a failure outside the degenerate-zoom case and the intermediate
\* cleanup reaches the caller: whenever a directory listing of the sample
\* search raises, the caller of the search sees the failure and no ordinary
\* result.
C21_FailuresPropagate ==
    (fn_out # <<>>
       /\ FindAnyPngBody(fn_in.tree, fn_in.order, fn_in.fails) = SearchRaised)
    => fn_out[1] = SearchRaised

\* C25: the bounds are the component-wise minimum (SW) and maximum (NE) of
\* the four corrected corners, the centre is the midpoint of the bounds, and
\* SW <= centre <= NE holds for latitude and for longitude.
C25_BoundsAndCenter ==
    fn_out # <<>> =>
        LET cs == CorrectedCorners(fn_in)
            r == fn_out[1]
        IN  /\ \A i \in 1..4 :
                  /\ r.bounds_sw_lat <= HalfDeg(cs[i].lat)
                  /\ HalfDeg(cs[i].lat) <= r.bounds_ne_lat
                  /\ r.bounds_sw_lng <= HalfDeg(cs[i].lon)
                  /\ HalfDeg(cs[i].lon) <= r.bounds_ne_lng
            /\ \E i \in 1..4 : r.bounds_sw_lat = HalfDeg(cs[i].lat)
            /\ \E i \in 1..4 : r.bounds_ne_lat = HalfDeg(cs[i].lat)
            /\ \E i \in 1..4 : r.bounds_sw_lng = HalfDeg(cs[i].lon)
            /\ \E i \in 1..4 : r.bounds_ne_lng = HalfDeg(cs[i].lon)
            /\ 2 * r.center_lat = r.bounds_sw_lat + r.bounds_ne_lat
            /\ 2 * r.center_lng = r.bounds_sw_lng + r.bounds_ne_lng
            /\ r.bounds_sw_lat <= r.center_lat /\ r.center_lat <= r.bounds_ne_lat
            /\ r.bounds_sw_lng <= r.center_lng /\ r.center_lng <= r.bounds_ne_lng

C25_Witness ==
    /\ fn_out # <<>>
    /\ fn_in = <<(<<45, 91>>), (<<120, 30>>), (<<-180, -90>>), (<<179, -85>>)>>
    /\ fn_out[1].bounds_sw_lat = HalfDeg(-90)
    /\ fn_out[1].bounds_ne_lat = HalfDeg(45)
    /\ fn_out[1].bounds_sw_lng = HalfDeg(-180)
    /\ fn_out[1].bounds_ne_lng = HalfDeg(179)
    /\ fn_out[1].center_lat = -45
    /\ fn_out[1].center_lng = -1

\* C26: the configured flag becomes true only in a call whose EPSG smoke
\* test succeeded; once it is true a call of ensure_gdal_available changes
\* no environment variable and no engine option; a call whose smoke test
\* failed leaves the flag false, and the call after it configures again.
C26_ConfigureOnceFlagGuarded ==
    /\ [][(~fn_out.configured /\ fn_out'.configured)
             => fn_out'.last = "configured"]_vars
    /\ [][fn_out.configured
             => /\ fn_out'.environ = fn_out.environ
                /\ fn_out'.options = fn_out.options
                /\ fn_out'.configured
                /\ fn_out'.last = "already"]_vars
    /\ [](fn_out.last = "smoke_failed" => ~fn_out.configured)
    /\ [][(fn_out.last = "smoke_failed" /\ fn_out' # fn_out)
             => fn_out'.last = "configured"]_vars

C26_Witness ==
    /\ fn_out.last = "already"
    /\ fn_out.configured
    /\ fn_out.environ["GTIFF_SRS_SOURCE"] = "GEOKEYS"
    /\ fn_out.options["GTIFF_SRS_SOURCE"] = "EPSG"
    /\ fn_out.environ["PROJ_LIB"] = "pyproj"
    /\ fn_out.environ["GDAL_DATA"] = "wheel_gdal"

\* The lines the tiling tool may print, as _LogStream forwards them
ToolLines == UNION { { out[i] : i \in 1..Len(out) } : out \in ToolOutputs }

\* A terminal message put by _run_pipeline itself
OwnTerminal(m) == m.tag \in { "__DONE__", "__ERR__" } /\ m \notin ToolLines

\* A run was started and its terminal message has not been taken from the
\* queue yet
RunPending ==
    \/ \E w \in Threads : IsAlive(w) /\ Terminals(w) = 0
    \/ \E i \in 1..Len(log_queue) : OwnTerminal(log_queue[i])

\* C27: every accepted start completes: the worker enqueues its terminal
\* message, the controlling thread takes that message from the queue and
\* enables the run button; from the accepted start until then the run button
\* stays disabled.
C27_StartCompletes ==
    /\ \A w \in Threads : (pc[w] = "warp_begin") ~> (Terminals(w) = 1)
    /\ \A w \in Threads :
          (pc[w] = "warp_begin") ~> (OwnTerminal(msg) /\ run_btn = "normal")
    /\ [](RunPending => run_btn = "disabled")

\* C28: whenever the run button is enabled no worker thread is alive, and so
\* no start is answered with the "still processing" dialog.
C28_EnabledMeansNoWorker ==
    /\ run_btn = "normal" => AliveSet = {}
    /\ dialog # "busy"

\* C29: a line forwarded from the tiling tool is only ever appended to the
\* log: taking it from the queue changes neither the buttons nor the dialog
\* nor the zoom suggestion.
C29_ToolLinesAreOnlyLogged ==
    [][(log_queue # <<>> /\ log_queue' = Tail(log_queue)
          /\ Head(log_queue) \in ToolLines)
         => /\ logbox' = Head(log_queue).body
            /\ UNCHANGED <<run_btn, open_btn, dialog, suggest_lbl>>]_vars

\* The lines of a text: it is cut at every "\r\n", "\r" and "\n"; the last
\* line is what follows the last terminator
RECURSIVE LinesOf(_, _)
LinesOf(text, line) ==
    IF text = <<>> THEN <<line>>
    ELSE IF Len(text) >= 2 /\ text[1] = CR /\ text[2] = LF
         THEN <<line>> \o LinesOf(SubSeq(text, 3, Len(text)), <<>>)
    ELSE IF text[1] \in { CR, LF }
         THEN <<line>> \o LinesOf(Tail(text), <<>>)
    ELSE LinesOf(Tail(text), Append(line, text[1]))

\* The non-blank lines of a text, right-stripped, in order
NonBlankLines(text) ==
    LET ls == SelectSeq(LinesOf(text, <<>>), LAMBDA l : ~IsBlank(l))
    IN  [i \in 1..Len(ls) |-> RStrip(ls[i])]

\* C30: after the writes of any split of a text and one flush, the lines
\* forwarded are those of a single write of the whole text and a flush:
\* every non-blank line once, in order, right-stripped, no blank line.
C30_ChunkingIndependent ==
    fn_out.flushed =>
        /\ fn_out.stream.logged
             = LogStreamFlush(LogStreamWrite(NewStream, fn_in.text)).logged
        /\ fn_out.stream.logged = NonBlankLines(fn_in.text)
        /\ fn_out.stream.buf = <<>>

C30_Witness ==
    /\ fn_out.flushed
    /\ fn_in.text = <<"a", CR, LF, "a">>
    /\ fn_in.chunks = << <<"a", CR>>, <<LF, "a">> >>
    /\ fn_out.stream.logged = << <<"a">>, <<"a">> >>

====
